---- MODULE Spec2Model ----
(***************************************************************************)
(* Model of lib/galaxy/datatypes/molecules.py: split and merge of the      *)
(* classes SDF, MOL2, FPS, CML and OBFS, set_meta, and the sniffers of     *)
(* SDF, MOL2, FPS, PDB, PDBQT, PQR, CML, GRO, CIF and Cell.                *)
(*                                                                         *)
(* A file is its content: a sequence of tokens.  A token is a piece of     *)
(* text that the code never looks inside: a sentinel ("$$$$",              *)
(* "@<TRIPOS>MOLECULE", "<molecule", ...), a blank, a line feed, or an     *)
(* opaque piece of data ("a", "b").  No token is a prefix of another, so   *)
(* str.startswith(sentinel) is "the first token is the sentinel".          *)
(* Reading a file yields its lines, each with its line feed, as Python's   *)
(* iteration over a file handle does; writing appends the lines' tokens.   *)
(***************************************************************************)
EXTENDS Integers, Sequences, FiniteSets, TLC

\* ------------------------------------------------------------------ bounds
MaxLines == 3
MaxSize == 2
MaxRecs == 5
MaxChunks == 2
MaxMergeLines == 3

\* ------------------------------------------------------------------ tokens
NL == "\n"
SP == " "
HASH == "#"
SDF_END == "$$$$"
TRIPOS == "@<TRIPOS>MOLECULE"
XML_DECL == "<?xml version=\"1.0\"?>"
CML_OPEN == "<cml xmlns=\"http://www.xml-cml.org/schema"
CML_OPEN_END == "\">"
CML_CLOSE == "</cml>"
MOL_OPEN == "<molecule"
MOL_CLOSE == "</molecule>"

Formats == {"SDF", "MOL2", "FPS", "CML"}

\* ------------------------------------------------------- text primitives
\* str.startswith(tok)
StartsWith(line, tok) == Len(line) >= 1 /\ line[1] = tok

\* tok in str
Contains(line, tok) == \E i \in 1..Len(line) : line[i] = tok

IsSpace(tok) == tok \in {SP, NL}

\* str.lstrip(): leading white space (line feed included) removed
RECURSIVE LStrip(_)
LStrip(line) ==
    IF line # <<>> /\ IsSpace(Head(line)) THEN LStrip(Tail(line)) ELSE line

\* not str.strip(): the line holds white space only
IsBlank(line) == \A i \in 1..Len(line) : IsSpace(line[i])

\* the line without its line terminator
Chomp(line) ==
    IF line # <<>> /\ line[Len(line)] = NL THEN SubSeq(line, 1, Len(line) - 1)
    ELSE line

\* index of the first line feed of a content, 0 when it has none
RECURSIVE FirstNL(_, _)
FirstNL(content, i) ==
    IF i > Len(content) THEN 0
    ELSE IF content[i] = NL THEN i
    ELSE FirstNL(content, i + 1)

\* "for line in handle": the lines of a content, line feeds kept; the last
\* line has none when the content does not end with one
RECURSIVE ReadLines(_)
ReadLines(content) ==
    IF content = <<>> THEN <<>>
    ELSE LET i == FirstNL(content, 1) IN
         IF i = 0 THEN <<content>>
         ELSE <<SubSeq(content, 1, i)>> \o ReadLines(SubSeq(content, i + 1, Len(content)))

\* file.writelines(lines): the lines' text, one after the other
RECURSIVE WriteLines(_)
WriteLines(ls) ==
    IF ls = <<>> THEN <<>> ELSE Head(ls) \o WriteLines(Tail(ls))

\* ------------------------------------------------------- record sentinels
\* SDF: line.startswith("$$$$")
SdfBadIsRecordEnd(line) == Chomp(line) = <<SDF_END>>
SdfIsRecordEnd(line) == StartsWith(line, SDF_END)

\* MOL2: line.startswith("@<TRIPOS>MOLECULE")
Mol2IsRecordStart(line) == StartsWith(line, TRIPOS)

\* CML: the three kinds of line _read_cml_records skips
CmlIsSkipped(line) ==
    \/ StartsWith(LStrip(line), XML_DECL)
    \/ StartsWith(LStrip(line), CML_OPEN)
    \/ StartsWith(LStrip(line), CML_CLOSE)

\* CML: line.lstrip().startswith("</molecule>")
CmlIsRecordEnd(line) == StartsWith(LStrip(line), MOL_CLOSE)

\* the header and footer CML.split writes into every part
CmlHeaderLines == << <<XML_DECL, NL>>, <<CML_OPEN, CML_OPEN_END, NL>> >>
CmlFooterLine == << <<CML_CLOSE, NL>> >>

\* ------------------------------------------------------------------ inputs
\* the i-th opaque data text: i times "a", so that different data lines differ
DataText(i) == [j \in 1..i |-> "a"]

\* all sequences over S of length at most n
SeqsUpTo(S, n) == UNION {[1..m -> S] : m \in 0..n}

\* the content of a file with lines ls (given without line terminators);
\* the last line is terminated only when finalNL
RECURSIVE Content(_, _)
Content(ls, finalNL) ==
    IF ls = <<>> THEN <<>>
    ELSE IF Len(ls) = 1 THEN (IF finalNL THEN Head(ls) \o <<NL>> ELSE Head(ls))
    ELSE Head(ls) \o <<NL>> \o Content(Tail(ls), finalNL)

\* the lines arbitrary input files are made of, per format
Alphabet(f) ==
    CASE f = "SDF" -> {<<"a">>, <<"b">>, <<SDF_END>>, <<SDF_END, "a">>}
      [] f = "MOL2" -> {<<"a">>, <<"b">>, <<TRIPOS>>, <<"a", TRIPOS>>}
      [] f = "FPS" -> {<<HASH, "a">>, <<HASH, "b">>, <<"a">>, <<"b">>, <<SP>>}
      [] f = "CML" -> {<<XML_DECL>>, <<CML_OPEN, CML_OPEN_END>>, <<MOL_OPEN, "a">>,
                       <<SP, MOL_OPEN, "b">>, <<MOL_CLOSE>>, <<CML_CLOSE>>, <<"a">>}

\* record i of a well-formed file, per format
DocRecord(f, i) ==
    CASE f = "SDF" -> <<DataText(i), <<"M  END">>, <<SDF_END>>>>
      [] f = "MOL2" -> <<<<TRIPOS>>, DataText(i)>>
      [] f = "FPS" -> <<DataText(i)>>
      [] f = "CML" -> <<<<SP, MOL_OPEN>> \o DataText(i), <<SP, MOL_CLOSE>>>>

RECURSIVE DocRecords(_, _)
DocRecords(f, n) ==
    IF n = 0 THEN <<>> ELSE DocRecords(f, n - 1) \o DocRecord(f, n)

\* what precedes and follows the records of a well-formed file
DocHeaders(f) ==
    CASE f = "FPS" -> {<<>>, <<<<HASH, "a">>>>, <<<<HASH, "a">>, <<HASH, "b">>>>}
      [] f = "CML" -> {<<<<XML_DECL>>, <<CML_OPEN, CML_OPEN_END>>>>}
      [] OTHER -> {<<>>}

DocFooter(f) == IF f = "CML" THEN <<<<CML_CLOSE>>>> ELSE <<>>

\* well-formed files with up to MaxRecs records
Docs(f) ==
    {Content(h \o DocRecords(f, n) \o DocFooter(f), TRUE) :
        h \in DocHeaders(f), n \in 0..MaxRecs}

\* the input files of a split
InputFiles(f) ==
    {Content(ls, nl) : ls \in SeqsUpTo(Alphabet(f), MaxLines), nl \in BOOLEAN}
        \cup Docs(f)

Modes == {"to_size", "number_of_parts", "other"}

\* split_params: None (given = FALSE) or {split_mode, split_size}
SplitParams ==
    {[given |-> FALSE, split_mode |-> "to_size", split_size |-> 1]}
        \cup [given : {TRUE}, split_mode : Modes, split_size : 0..MaxSize]

\* ------------------------------------------------------------------- state
VARIABLES
    fmt,            \* the class whose split / merge runs
    pc,             \* where the call is
    num_inputs,     \* len(input_datasets)
    split_params,   \* the plan handed to split
    input_file,     \* content of input_files[0]
    chunk_size,     \* int(split_params['split_size'])
    pos,            \* lines of the input read so far
    lines,          \* the record reader's buffer (a sequence of lines)
    start,          \* MOL2 reader: no sentinel seen yet
    header_lines,   \* FPS: the # lines seen so far
    accumulated,    \* lines accumulated for the next part
    counter,        \* records completed so far
    parts,          \* the parts written, in creation order: [dir, data]
    alloc,          \* calls of subdir_generator_function so far
    error,          \* message of the exception raised, <<>> when none
    split_files,    \* merge: contents of the chunk files, in order
    out,            \* merge: content of output_file
    out_opened,     \* merge: output_file was opened for writing
    midx,           \* merge: chunk files opened so far
    sniffed,        \* sniff: the value returned
    reread,         \* sniff: the whole file was read after the prefix
    metadata        \* set_meta: dataset.metadata.chain_ids, <<>> while unassigned

vars == <<fmt, pc, num_inputs, split_params, input_file, chunk_size, pos, lines,
          start, header_lines, accumulated, counter, parts, alloc, error,
          split_files, out, out_opened, midx, sniffed, reread, metadata>>

splitVars == <<num_inputs, split_params, input_file, chunk_size, pos, lines,
               start, header_lines, accumulated, counter, parts, alloc>>

mergeVars == <<split_files, out, out_opened, midx>>

sniffVars == <<sniffed, reread>>

metaVars == <<metadata>>

InLines == ReadLines(input_file)

\* the state before a call on an object of one of the classes fmts, the
\* destination of a merge holding dest (nothing when it does not exist)
InitWith(fmts, dest) ==
    /\ fmt \in fmts
    /\ pc = "idle"
    /\ num_inputs = 1
    /\ split_params = [given |-> FALSE, split_mode |-> "to_size", split_size |-> 1]
    /\ input_file = <<>>
    /\ chunk_size = 0
    /\ pos = 0
    /\ lines = <<>>
    /\ start = TRUE
    /\ header_lines = <<>>
    /\ accumulated = <<>>
    /\ counter = 0
    /\ parts = <<>>
    /\ alloc = 0
    /\ error = <<>>
    /\ split_files = <<>>
    /\ out = dest
    /\ out_opened = FALSE
    /\ midx = 0
    /\ sniffed = FALSE
    /\ reread = FALSE
    /\ metadata = <<>>

Init == InitWith(Formats, <<>>)

\* ------------------------------------------------------------------- split
\* the name each class's split gives its format in "currently not implemented for"
SplitModeName(f) ==
    CASE f = "SDF" -> "SD"
      [] f = "MOL2" -> "MOL2"
      [] f = "FPS" -> "MOL2"
      [] f = "CML" -> "CML"

\* input_files[0], a path given by its components: each class is handed a
\* file of its own
InputPath(f) ==
    CASE f = "SDF" -> <<"data", "in", "mols.sdf">>
      [] f = "MOL2" -> <<"in", "mols.mol2">>
      [] f = "FPS" -> <<"mols.fps">>
      [] f = "CML" -> <<"data", "mols.cml">>

\* os.path.basename
Basename(path) == path[Len(path)]

\* the name each class's split gives its format in "does not support multiple files"
SplitFileName(f) ==
    CASE f = "SDF" -> "SD"
      [] f = "MOL2" -> "MOL2"
      [] f = "FPS" -> "FPS"
      [] f = "CML" -> "CML"

\* a head that tests the mode before the number of inputs
SplitCallModeFirst ==
    /\ pc = "idle"
    /\ \E n \in 1..2, p \in SplitParams, f \in InputFiles(fmt) :
        /\ num_inputs' = n
        /\ split_params' = p
        /\ IF ~p.given
           THEN /\ pc' = "returned"
                /\ error' = <<>>
                /\ UNCHANGED <<input_file, chunk_size>>
           ELSE IF p.split_mode = "number_of_parts"
           THEN /\ pc' = "raised"
                /\ error' = <<"Split mode \"number_of_parts\" is currently not implemented for ",
                              SplitModeName(fmt), "-files.">>
                /\ UNCHANGED <<input_file, chunk_size>>
           ELSE IF p.split_mode # "to_size"
           THEN /\ pc' = "raised"
                /\ error' = <<"Unsupported split mode ", p.split_mode>>
                /\ UNCHANGED <<input_file, chunk_size>>
           ELSE IF n > 1
           THEN /\ pc' = "raised"
                /\ error' = <<SplitFileName(fmt), "-file splitting does not support multiple files">>
                /\ UNCHANGED <<input_file, chunk_size>>
           ELSE IF p.split_mode = "to_size"
           THEN /\ pc' = "reading"
                /\ error' = <<>>
                /\ chunk_size' = p.split_size
                /\ input_file' = f
           ELSE /\ pc' = "raised"
                /\ error' = <<"Unsupported split mode ", p.split_mode>>
                /\ UNCHANGED <<input_file, chunk_size>>
    /\ UNCHANGED <<fmt, pos, lines, start, header_lines, accumulated, counter,
                   parts, alloc>>
    /\ UNCHANGED mergeVars
    /\ UNCHANGED <<sniffVars, metaVars>>

\* the head of every split: None plan, cardinality, mode, then the input is opened
SplitCall ==
    /\ pc = "idle"
    /\ \E n \in 1..2, p \in SplitParams, f \in InputFiles(fmt) :
        /\ num_inputs' = n
        /\ split_params' = p
        /\ IF ~p.given
           THEN /\ pc' = "returned"
                /\ error' = <<>>
                /\ UNCHANGED <<input_file, chunk_size>>
           ELSE IF n > 1
           THEN /\ pc' = "raised"
                /\ error' = <<SplitFileName(fmt), "-file splitting does not support multiple files">>
                /\ UNCHANGED <<input_file, chunk_size>>
           ELSE IF p.split_mode = "number_of_parts"
           THEN /\ pc' = "raised"
                /\ error' = <<"Split mode \"number_of_parts\" is currently not implemented for ",
                              SplitModeName(fmt), "-files.">>
                /\ UNCHANGED <<input_file, chunk_size>>
           ELSE IF p.split_mode = "to_size"
           THEN /\ pc' = "reading"
                /\ error' = <<>>
                /\ chunk_size' = p.split_size
                /\ input_file' = f
           ELSE /\ pc' = "raised"
                /\ error' = <<"Unsupported split mode ", p.split_mode>>
                /\ UNCHANGED <<input_file, chunk_size>>
    /\ UNCHANGED <<fmt, pos, lines, start, header_lines, accumulated, counter,
                   parts, alloc>>
    /\ UNCHANGED mergeVars
    /\ UNCHANGED <<sniffVars, metaVars>>

\* _write_part_*_file: one call of the allocator, one part written and closed
WritePartBad(text) ==
    /\ alloc' = alloc + 1
    /\ parts' = <<[dir |-> alloc + 1, name |-> Basename(InputPath(fmt)),
                   data |-> text]>> \o parts
WritePartAllocTwice(text) ==
    /\ alloc' = alloc + 2
    /\ parts' = Append(parts, [dir |-> alloc + 2, name |-> Basename(InputPath(fmt)),
                               data |-> text])
WritePart(text) ==
    /\ alloc' = alloc + 1
    /\ parts' = Append(parts, [dir |-> alloc + 1, name |-> Basename(InputPath(fmt)),
                               data |-> text])

\* the text of a part, per format
SdfPartText(acc) == WriteLines(acc)
Mol2PartText(acc) == WriteLines(acc)
FpsPartText(hdr, acc) == WriteLines(hdr \o acc)
CmlPartText(acc) == WriteLines(CmlHeaderLines \o acc \o CmlFooterLine)

\* the flush test: counter % chunk_size == 0
FlushDueBad(c, k) == c >= k
FlushDue(c, k) == c % k = 0

\* body of "for counter, record in enumerate(records, start=1)" for a record
\* rec just yielded, text being the part's text if it is flushed now;
\* counter % 0 raises
ForBodyUnchecked(rec, text) ==
    /\ counter' = counter + 1
    /\ pc' = pc
    /\ error' = error
    /\ IF chunk_size # 0 /\ FlushDue(counter + 1, chunk_size)
       THEN /\ WritePart(text)
            /\ accumulated' = <<>>
       ELSE /\ accumulated' = accumulated \o rec
            /\ UNCHANGED <<parts, alloc>>
ForBody(rec, text) ==
    /\ counter' = counter + 1
    /\ IF chunk_size = 0
       THEN /\ pc' = "raised"
            /\ error' = <<"ZeroDivisionError">>
            /\ accumulated' = accumulated \o rec
            /\ UNCHANGED <<parts, alloc>>
       ELSE /\ pc' = pc
            /\ error' = error
            /\ IF FlushDue(counter + 1, chunk_size)
               THEN /\ WritePart(text)
                    /\ accumulated' = <<>>
               ELSE /\ accumulated' = accumulated \o rec
                    /\ UNCHANGED <<parts, alloc>>

NoRecord == UNCHANGED <<counter, accumulated, parts, alloc, pc, error>>

FinalFlushRest(text) ==
    /\ pc' = "done"
    /\ IF accumulated \o lines # <<>>
       THEN WritePart(text \o WriteLines(lines))
       ELSE UNCHANGED <<parts, alloc>>
    /\ UNCHANGED accumulated

\* the flush after the loop: "if accumulated: write"
FinalFlush(text) ==
    /\ pc' = "done"
    /\ IF accumulated # <<>>
       THEN WritePart(text)
       ELSE UNCHANGED <<parts, alloc>>
    /\ UNCHANGED accumulated

splitFrame ==
    /\ UNCHANGED <<fmt, num_inputs, split_params, input_file, chunk_size>>
    /\ UNCHANGED mergeVars
    /\ UNCHANGED <<sniffVars, metaVars>>

\* SDF: one line read by _read_sdf_records, and the loop body when it yields
SdfReadLine ==
    /\ fmt = "SDF" /\ pc = "reading" /\ pos < Len(InLines)
    /\ LET line == InLines[pos + 1] IN
        /\ pos' = pos + 1
        /\ IF SdfIsRecordEnd(line)
           THEN lines' = <<>> /\ ForBody(Append(lines, line),
                                       SdfPartText(accumulated \o Append(lines, line)))
           ELSE lines' = Append(lines, line) /\ NoRecord
    /\ UNCHANGED <<start, header_lines>>
    /\ splitFrame

SdfEnd ==
    /\ fmt = "SDF" /\ pc = "reading" /\ pos = Len(InLines)
    /\ FinalFlush(SdfPartText(accumulated))
    /\ UNCHANGED <<pos, lines, start, header_lines, counter, error>>
    /\ splitFrame

\* MOL2: one line read by _read_mol2_records, and the loop body when it yields
Mol2ReadLine ==
    /\ fmt = "MOL2" /\ pc = "reading" /\ pos < Len(InLines)
    /\ LET line == InLines[pos + 1] IN
        /\ pos' = pos + 1
        /\ IF Mol2IsRecordStart(line) /\ ~start
           THEN lines' = <<line>> /\ ForBody(lines, Mol2PartText(accumulated \o lines))
           ELSE lines' = Append(lines, line) /\ NoRecord
        /\ start' = (start /\ ~Mol2IsRecordStart(line))
    /\ UNCHANGED header_lines
    /\ splitFrame

\* MOL2: the reader ends without yielding its buffer
Mol2End ==
    /\ fmt = "MOL2" /\ pc = "reading" /\ pos = Len(InLines)
    /\ FinalFlush(Mol2PartText(accumulated))
    /\ UNCHANGED <<pos, lines, start, header_lines, counter, error>>
    /\ splitFrame

\* FPS: one line of the input; the flush test runs after every non-blank line
FpsReadLine ==
    /\ fmt = "FPS" /\ pc = "reading" /\ pos < Len(InLines)
    /\ LET line == InLines[pos + 1]
           isHeader == StartsWith(line, HASH)
           hdr == IF isHeader THEN Append(header_lines, line) ELSE header_lines
           acc == IF isHeader THEN accumulated ELSE Append(accumulated, line)
           cnt == IF isHeader THEN counter ELSE counter + 1
       IN
        /\ pos' = pos + 1
        /\ IF IsBlank(line)
           THEN UNCHANGED <<header_lines, accumulated, counter, parts, alloc, pc, error>>
           ELSE /\ header_lines' = hdr
                /\ counter' = cnt
                /\ IF cnt # 0 /\ chunk_size = 0
                   THEN /\ pc' = "raised"
                        /\ error' = <<"ZeroDivisionError">>
                        /\ accumulated' = acc
                        /\ UNCHANGED <<parts, alloc>>
                   ELSE /\ pc' = pc
                        /\ error' = error
                        /\ IF cnt # 0 /\ FlushDue(cnt, chunk_size)
                           THEN /\ WritePart(FpsPartText(hdr, acc))
                                /\ accumulated' = <<>>
                           ELSE /\ accumulated' = acc
                                /\ UNCHANGED <<parts, alloc>>
    /\ UNCHANGED <<lines, start>>
    /\ splitFrame

FpsEnd ==
    /\ fmt = "FPS" /\ pc = "reading" /\ pos = Len(InLines)
    /\ pc' = "done"
    /\ IF accumulated # <<>>
       THEN WritePart(FpsPartText(header_lines, accumulated))
       ELSE UNCHANGED <<parts, alloc>>
    /\ UNCHANGED accumulated
    /\ UNCHANGED <<pos, lines, start, header_lines, counter, error>>
    /\ splitFrame

\* CML: one line read by _read_cml_records, and the loop body when it yields
CmlReadLine ==
    /\ fmt = "CML" /\ pc = "reading" /\ pos < Len(InLines)
    /\ LET line == InLines[pos + 1] IN
        /\ pos' = pos + 1
        /\ IF CmlIsSkipped(line)
           THEN lines' = lines /\ NoRecord
           ELSE IF CmlIsRecordEnd(line)
           THEN lines' = <<>> /\ ForBody(Append(lines, line),
                                       CmlPartText(accumulated \o Append(lines, line)))
           ELSE lines' = Append(lines, line) /\ NoRecord
    /\ UNCHANGED <<start, header_lines>>
    /\ splitFrame

CmlEnd ==
    /\ fmt = "CML" /\ pc = "reading" /\ pos = Len(InLines)
    /\ FinalFlush(CmlPartText(accumulated))
    /\ UNCHANGED <<pos, lines, start, header_lines, counter, error>>
    /\ splitFrame

SplitNext ==
    \/ SplitCall
    \/ SdfReadLine \/ SdfEnd
    \/ Mol2ReadLine \/ Mol2End
    \/ FpsReadLine \/ FpsEnd
    \/ CmlReadLine \/ CmlEnd

SpecSplit == Init /\ [][SplitNext]_vars

\* ------------------------------------------------------------------- merge
\* the result of a merge call: the destination's content, whether the
\* destination was opened for writing, the chunk files opened, the error raised
MergeResult(o, opened, read, err) ==
    [out |-> o, opened |-> opened, read |-> read, error |-> err]

\* Text.merge (the base class): the chunk files copied to the destination, one
\* after the other; no chunk file at all is an error
TextMerge(files) ==
    IF files = <<>>
    THEN MergeResult(<<>>, FALSE, 0, <<"ValueError", "Asked to merge zero files">>)
    ELSE MergeResult(WriteLines(files), TRUE, Len(files), <<>>)

\* FPS.merge, the loop over the lines of one chunk file: o is the output so far
RECURSIVE FpsMergeLinesBad(_, _, _)
FpsMergeLinesBad(ls, o, fst) ==
    IF ls = <<>> THEN [out |-> o, first |-> fst]
    ELSE FpsMergeLinesBad(Tail(ls), o \o Head(ls), fst)

RECURSIVE FpsMergeLines(_, _, _)
FpsMergeLines(ls, o, fst) ==
    IF ls = <<>> THEN [out |-> o, first |-> fst]
    ELSE LET line == Head(ls) IN
        IF StartsWith(line, HASH)
        THEN FpsMergeLines(Tail(ls), IF fst THEN o \o line ELSE o, fst)
        ELSE FpsMergeLines(Tail(ls), o \o line, FALSE)

\* FPS.merge, the loop over the chunk files
RECURSIVE FpsMergeFiles(_, _, _)
FpsMergeFiles(files, o, fst) ==
    IF files = <<>> THEN o
    ELSE LET r == FpsMergeLines(ReadLines(Head(files)), o, fst) IN
        FpsMergeFiles(Tail(files), r.out, r.first)

FpsMerge(files) ==
    IF Len(files) = 1 THEN TextMerge(files)
    ELSE IF files = <<>>
    THEN MergeResult(<<>>, FALSE, 0, <<"ValueError", "No fps files given">>)
    ELSE MergeResult(FpsMergeFiles(files, <<>>, TRUE), TRUE, Len(files), <<>>)

\* CML.merge, the loop over the lines that follow the two header lines
RECURSIVE CmlMergeBody(_, _, _)
CmlMergeBody(ls, o, molecule_found) ==
    IF ls = <<>> THEN o
    ELSE LET line == Head(ls) IN
        IF StartsWith(LStrip(line), CML_CLOSE)
        THEN CmlMergeBody(Tail(ls), o, molecule_found)
        ELSE LET found == molecule_found \/ StartsWith(LStrip(line), MOL_OPEN) IN
            CmlMergeBody(Tail(ls), IF found THEN o \o line ELSE o, found)

\* CML.merge, one chunk file: readline() twice, the header checks, the body
CmlMergeFileBad(content, o) == [out |-> o \o content, error |-> <<>>]
CmlMergeFileNoWrite(content, o) ==
    LET ls == ReadLines(content)
        header == IF ls = <<>> THEN <<>> ELSE ls[1]
        line == IF Len(ls) >= 2 THEN ls[2] ELSE <<>>
    IN  IF header = <<>>
        THEN [out |-> o, error |-> <<"ValueError", "CML file was empty">>]
        ELSE IF ~StartsWith(LStrip(header), XML_DECL)
        THEN [out |-> o, error |-> <<"ValueError", "is not a valid XML file!">>]
        ELSE IF ~StartsWith(LStrip(line), CML_OPEN)
        THEN [out |-> o, error |-> <<"ValueError", "is not a CML file!">>]
        ELSE [out |-> CmlMergeBody(SubSeq(ls, 3, Len(ls)), o, FALSE), error |-> <<>>]
CmlMergeFile(content, o) ==
    LET ls == ReadLines(content)
        header == IF ls = <<>> THEN <<>> ELSE ls[1]
        line == IF Len(ls) >= 2 THEN ls[2] ELSE <<>>
    IN  IF header = <<>>
        THEN [out |-> o, error |-> <<"ValueError", "CML file was empty">>]
        ELSE IF ~StartsWith(LStrip(header), XML_DECL)
        THEN [out |-> o \o header, error |-> <<"ValueError", "is not a valid XML file!">>]
        ELSE IF ~StartsWith(LStrip(line), CML_OPEN)
        THEN [out |-> o \o header \o line, error |-> <<"ValueError", "is not a CML file!">>]
        ELSE [out |-> CmlMergeBody(SubSeq(ls, 3, Len(ls)), o, FALSE), error |-> <<>>]

\* CML.merge, the loop over the chunk files, then the closing tag
RECURSIVE CmlMergeFiles(_, _, _)
CmlMergeFiles(files, o, read) ==
    IF files = <<>> THEN MergeResult(o \o <<CML_CLOSE, NL>>, TRUE, read, <<>>)
    ELSE LET r == CmlMergeFile(Head(files), o) IN
        IF r.error # <<>> THEN MergeResult(r.out, TRUE, read + 1, r.error)
        ELSE CmlMergeFiles(Tail(files), r.out, read + 1)

CmlMergeNoShortcut(files) ==
    IF files = <<>>
    THEN MergeResult(<<>>, FALSE, 0, <<"ValueError", "Given no CML files">>)
    ELSE CmlMergeFiles(files, <<>>, 0)

CmlMergeOpensFirst(files) ==
    IF Len(files) = 1 THEN TextMerge(files)
    ELSE IF files = <<>>
    THEN MergeResult(<<>>, TRUE, 0, <<"ValueError", "Given no CML files">>)
    ELSE CmlMergeFiles(files, <<>>, 0)

CmlMerge(files) ==
    IF Len(files) = 1 THEN TextMerge(files)
    ELSE IF files = <<>>
    THEN MergeResult(<<>>, FALSE, 0, <<"ValueError", "Given no CML files">>)
    ELSE CmlMergeFiles(files, <<>>, 0)

\* the merge of each class; SDF and MOL2 define none and inherit Text.merge
Merge(f, files) ==
    CASE f = "FPS" -> FpsMerge(files)
      [] f = "CML" -> CmlMerge(files)
      [] OTHER -> TextMerge(files)

\* the state after merge(files, output_file) returned or raised
Merged(files) ==
    LET r == Merge(fmt, files) IN
        /\ split_files' = files
        /\ pc' = IF r.error = <<>> THEN "merged" ELSE "merge_raised"
        /\ error' = r.error
        /\ out' = IF r.opened THEN r.out ELSE out
        /\ out_opened' = r.opened
        /\ midx' = r.read
        /\ UNCHANGED fmt
        /\ UNCHANGED splitVars
        /\ UNCHANGED <<sniffVars, metaVars>>

\* merge called on the parts a split wrote, in creation order
MergeParts ==
    /\ pc = "done"
    /\ Merged([i \in 1..Len(parts) |-> parts[i].data])

\* the lines chunk files handed to merge directly are made of
MergeAlphabet(f) ==
    IF f = "FPS" THEN {<<HASH, "a">>, <<HASH, "b">>, <<"a">>, <<"b">>}
    ELSE {<<SP, MOL_OPEN, "a">>, <<MOL_OPEN, "b">>, <<CML_CLOSE>>, <<"a">>}

\* how such a chunk file begins
MergeHeads(f) ==
    IF f = "FPS" THEN {<<>>}
    ELSE {<<<<XML_DECL>>, <<CML_OPEN, CML_OPEN_END>>>>, <<<<XML_DECL>>>>, <<>>}

\* merge called on up to MaxChunks chunk files of MaxMergeLines lines in all
\* (beyond the lines they begin with); the files end with a line feed or not
MergeCall ==
    /\ pc = "idle"
    /\ fmt \in {"FPS", "CML"}
    /\ \E c \in 0..MaxChunks, ls \in SeqsUpTo(MergeAlphabet(fmt), MaxMergeLines),
          nl \in BOOLEAN :
        \E cuts \in [1..(c - 1) -> 0..Len(ls)], heads \in [1..c -> MergeHeads(fmt)] :
            /\ \A i \in 1..(c - 2) : cuts[i] <= cuts[i + 1]
            /\ c = 0 => ls = <<>>
            /\ Merged([i \in 1..c |->
                    LET lo == IF i = 1 THEN 0 ELSE cuts[i - 1]
                        hi == IF i = c THEN Len(ls) ELSE cuts[i]
                    IN Content(heads[i] \o SubSeq(ls, lo + 1, hi), nl)])

SpecMerge == Init /\ [][MergeCall]_vars

\* merge onto a destination that exists and holds the output of an earlier run
ExistingOutput == <<"a", NL>>

InitExisting == InitWith({"FPS", "CML"}, ExistingOutput)

SpecMergeExisting == InitExisting /\ [][MergeCall]_vars

Next == SplitNext \/ MergeParts

Spec == Init /\ [][Next]_vars

\* -------------------------------------------------------------------- OBFS
\* the chunk files of a fastsearch index: binary, any bytes
ObfsFiles == SeqsUpTo({"a", "b", NL}, 2)

\* OBFS.split: None for no plan, NotImplementedError for every plan
ObfsSplitBad ==
    /\ pc = "idle"
    /\ \E n \in 1..2, p \in SplitParams :
        /\ num_inputs' = n
        /\ split_params' = p
        /\ pc' = "returned"
        /\ error' = <<>>
    /\ UNCHANGED <<fmt, input_file, chunk_size, pos, lines, start, header_lines,
                   accumulated, counter, parts, alloc>>
    /\ UNCHANGED mergeVars
    /\ UNCHANGED <<sniffVars, metaVars>>

ObfsSplit ==
    /\ pc = "idle"
    /\ \E n \in 1..2, p \in SplitParams :
        /\ num_inputs' = n
        /\ split_params' = p
        /\ IF ~p.given
           THEN /\ pc' = "returned"
                /\ error' = <<>>
           ELSE /\ pc' = "raised"
                /\ error' = <<"NotImplementedError",
                              "Splitting Fastsearch indices is not possible.">>
    /\ UNCHANGED <<fmt, input_file, chunk_size, pos, lines, start, header_lines,
                   accumulated, counter, parts, alloc>>
    /\ UNCHANGED mergeVars
    /\ UNCHANGED <<sniffVars, metaVars>>

\* OBFS.merge: NotImplementedError, whatever the chunk files
ObfsMerge ==
    /\ pc = "idle"
    /\ \E files \in SeqsUpTo(ObfsFiles, MaxChunks) : split_files' = files
    /\ pc' = "merge_raised"
    /\ error' = <<"NotImplementedError", "Merging Fastsearch indices is not supported.">>
    /\ UNCHANGED <<out, out_opened, midx>>
    /\ UNCHANGED fmt
    /\ UNCHANGED splitVars
    /\ UNCHANGED <<sniffVars, metaVars>>

InitObfs == InitWith({"OBFS"}, ExistingOutput)

ObfsNext == ObfsSplit \/ ObfsMerge

SpecObfs == InitObfs /\ [][ObfsNext]_vars

\* ------------------------------------------------------------------- sniff
\* Tokens of the sniffers.  len(line) is the sum of the lengths of the
\* tokens of the line; a read of n bytes is scaled to a read of n tokens and
\* ends between two tokens.
TAB == "\t"
M_END == "M  END"
COUNTS == "  2  1  0  0  0  0  0  0  0  0999"
V2000 == " V2000"
V3000 == " V3000"
FPS1 == "#FPS1"
REMARK == "REMARK"
ATOM == "ATOM"
HETATM == "HETATM"
PQR_FIELDS == "1 N MET 1 46.770 42.130 28.660 -0.3000 1.8240"
GRO_COUNT == "3"
GRO_ATOM == "    1MET      N    1   4.677   4.213   2.866"
DATA_ == "data_"
ATOM_SITE == "_atom_site_fract_"
BLOCK == "%BLOCK "
ENDBLOCK == "%ENDBLOCK "
CML_SCHEMA == "http://www.xml-cml.org/schema"

\* None, as the value of a parameter
NONE == "None"

\* the stand-in of the model for limit = 10000 of SDF.sniff_prefix
SdfSniffLimit == 7

\* the stand-in of the model for the 1000 of f.read(1000) (CIF, Cell)
PrefixSize == 3

\* the stand-in of the model for count=300 of PDB and PDBQT.sniff_prefix
SectionCount == 8

SniffFormats ==
    {"SDF", "MOL2", "FPS", "PDB", "PDBQT", "PQR", "CML", "GRO", "CIF", "Cell"}

IsWhite(tok) == tok \in {SP, TAB, NL}

\* len(str)
RECURSIVE StrLen(_)
StrLen(line) == IF line = <<>> THEN 0 ELSE Len(Head(line)) + StrLen(Tail(line))

\* str.endswith(tok)
EndsWith(line, tok) == Len(line) >= 1 /\ line[Len(line)] = tok

\* str.startswith(p), p a text of several tokens
StartsWithText(line, p) ==
    Len(p) <= Len(line) /\ SubSeq(line, 1, Len(p)) = p

\* str.strip()
RECURSIVE RStrip(_)
RStrip(line) ==
    IF line # <<>> /\ IsWhite(line[Len(line)])
    THEN RStrip(SubSeq(line, 1, Len(line) - 1)) ELSE line

RECURSIVE LStripWhite(_)
LStripWhite(line) ==
    IF line # <<>> /\ IsWhite(Head(line)) THEN LStripWhite(Tail(line)) ELSE line

Strip(line) == LStripWhite(RStrip(line))

\* str.split(sep): the pieces between the occurrences of sep
RECURSIVE SplitAt(_, _)
SplitAt(line, sep) ==
    IF ~Contains(line, sep) THEN <<line>>
    ELSE LET i == CHOOSE k \in 1..Len(line) :
                    line[k] = sep /\ \A j \in 1..(k - 1) : line[j] # sep
         IN <<SubSeq(line, 1, i - 1)>> \o SplitAt(SubSeq(line, i + 1, Len(line)), sep)

\* str.split(None): the runs of tokens that are not white space
RECURSIVE SplitWhite(_)
SplitWhite(line) ==
    LET l == LStripWhite(line) IN
        IF l = <<>> THEN <<>>
        ELSE LET n == IF \E k \in 1..Len(l) : IsWhite(l[k])
                      THEN (CHOOSE k \in 1..Len(l) :
                                IsWhite(l[k]) /\ \A j \in 1..(k - 1) : ~IsWhite(l[j])) - 1
                      ELSE Len(l)
             IN <<SubSeq(l, 1, n)>> \o SplitWhite(SubSeq(l, n + 1, Len(l)))

Split(line, sep) == IF sep = NONE THEN SplitWhite(line) ELSE SplitAt(line, sep)

\* the first n elements of a sequence
Take(seq, n) == SubSeq(seq, 1, IF Len(seq) < n THEN Len(seq) ELSE n)

\* FilePrefix.line_iterator(): the lines of the file, with their terminators
LineIterator(content) == ReadLines(content)

\* get_headers / iter_headers: the first count lines that do not start with
\* the comment designator, without their terminators, each split at sep
NotComment(line, comment_designator) ==
    comment_designator = <<>> \/ ~StartsWithText(line, comment_designator)

RECURSIVE HeaderLines(_, _)
HeaderLines(ls, comment_designator) ==
    IF ls = <<>> THEN <<>>
    ELSE LET line == Chomp(Head(ls)) IN
        (IF NotComment(line, comment_designator) THEN <<line>> ELSE <<>>)
            \o HeaderLines(Tail(ls), comment_designator)

GetHeaders(content, sep, count, comment_designator) ==
    LET ls == Take(HeaderLines(LineIterator(content), comment_designator), count)
    IN [i \in 1..Len(ls) |-> Split(ls[i], sep)]

\* what a sniffer returns or raises; reread: it read the whole file again
SniffResult(v, rr, err) == [value |-> v, reread |-> rr, error |-> err]

IndexError == <<"IndexError", "list index out of range">>

\* a loop that takes a $$$$ line as the end of a record without an M  END line
RECURSIVE SdfSniffLoopAnyEnd(_, _, _, _)
SdfSniffLoopAnyEnd(ls, idx0, m_end_found, limit) ==
    IF ls = <<>> THEN FALSE
    ELSE LET idx == idx0 + 1
             line == Chomp(Head(ls))
         IN IF idx < 4 THEN SdfSniffLoopAnyEnd(Tail(ls), idx, m_end_found, limit)
            ELSE IF idx = 4 /\ (StrLen(line) # 39
                                \/ ~(EndsWith(line, V2000) \/ EndsWith(line, V3000)))
            THEN FALSE
            ELSE IF idx > 4 /\ line = <<SDF_END>> THEN TRUE
            ELSE IF idx = limit THEN FALSE
            ELSE SdfSniffLoopAnyEnd(Tail(ls), idx, m_end_found, limit)

\* SDF.sniff_prefix: the loop, idx0 lines read so far
RECURSIVE SdfSniffLoop(_, _, _, _)
SdfSniffLoop(ls, idx0, m_end_found, limit) ==
    IF ls = <<>> THEN FALSE
    ELSE LET idx == idx0 + 1
             line == Chomp(Head(ls))
         IN IF idx < 4 THEN SdfSniffLoop(Tail(ls), idx, m_end_found, limit)
            ELSE IF idx = 4 /\ (StrLen(line) # 39
                                \/ ~(EndsWith(line, V2000) \/ EndsWith(line, V3000)))
            THEN FALSE
            ELSE IF idx > 4 /\ m_end_found /\ line = <<SDF_END>> THEN TRUE
            ELSE IF idx = limit THEN FALSE
            ELSE SdfSniffLoop(Tail(ls), idx,
                    m_end_found \/ (idx > 4 /\ line = <<M_END>>), limit)

SdfSniffPrefix(content) ==
    SniffResult(SdfSniffLoop(LineIterator(content), 0, FALSE, SdfSniffLimit), FALSE, <<>>)

\* MOL2.sniff_prefix
RECURSIVE Mol2SniffLoop(_, _, _)
Mol2SniffLoop(ls, idx, limit) ==
    IF ls = <<>> THEN FALSE
    ELSE IF Chomp(Head(ls)) = <<TRIPOS>> THEN TRUE
    ELSE IF idx + 1 = limit THEN FALSE
    ELSE Mol2SniffLoop(Tail(ls), idx + 1, limit)

Mol2SniffPrefix(content) ==
    SniffResult(Mol2SniffLoop(LineIterator(content), 0, 60), FALSE, <<>>)

\* a sniffer that splits the first line at white space
FpsSniffPrefixWhite(content) ==
    LET header == GetHeaders(content, NONE, 1, <<>>) IN
        IF header = <<>> THEN SniffResult(FALSE, FALSE, IndexError)
        ELSE SniffResult(header[1] # <<>> /\ header[1][1] = <<FPS1>>, FALSE, <<>>)

\* FPS.sniff_prefix
FpsSniffPrefix(content) ==
    LET header == GetHeaders(content, TAB, 1, <<>>) IN
        IF header = <<>> THEN SniffResult(FALSE, FALSE, IndexError)
        ELSE SniffResult(Strip(header[1][1]) = <<FPS1>>, FALSE, <<>>)

\* PDB.sniff_prefix, PDBQT.sniff_prefix: every keyword is the first piece of
\* some header line
PdbKeywords == {"HEADER", "TITLE", "COMPND", "SOURCE", "KEYWDS", "EXPDTA"}
PdbqtKeywords == {"REMARK", "ROOT", "ENDROOT", "BRANCH", "TORSDOF"}

\* a sniffer that reads every line of the file
SectionSniffNoCount(content, keywords) ==
    LET headers == GetHeaders(content, SP, Len(content), <<>>) IN
        SniffResult(\A k \in keywords :
                        \E i \in 1..Len(headers) : Strip(headers[i][1]) = <<k>>,
                    FALSE, <<>>)

SectionSniff(content, keywords) ==
    LET headers == GetHeaders(content, SP, SectionCount, <<>>) IN
        SniffResult(\A k \in keywords :
                        \E i \in 1..Len(headers) : Strip(headers[i][1]) = <<k>>,
                    FALSE, <<>>)

PdbSniffPrefix(content) == SectionSniff(content, PdbKeywords)

PdbqtSniffPrefix(content) == SectionSniff(content, PdbqtKeywords)

\* PQR.get_matcher, applied to ' '.join(line): the pieces of the line are
\* ATOM or HETATM and the fields that follow it
PqrMatch(line) ==
    /\ Len(line) >= 2
    /\ line[1] \in {<<ATOM>>, <<HETATM>>}
    /\ line[2] = <<PQR_FIELDS>>

PQR_COMMENT == <<REMARK, SP, SP, SP, "5">>

\* PQR.sniff_prefix: the loop over the header lines, h the flag so far
RECURSIVE PqrSniffLoop(_, _)
PqrSniffLoop(headers, h) ==
    IF headers = <<>> THEN SniffResult(FALSE, FALSE, <<>>)
    ELSE LET line == Head(headers) IN
        IF line = <<>> THEN SniffResult(FALSE, FALSE, IndexError)
        ELSE LET section_name == Strip(line[1]) IN
            IF section_name = <<REMARK>> THEN PqrSniffLoop(Tail(headers), TRUE)
            ELSE IF section_name \in {<<ATOM>>, <<HETATM>>} /\ PqrMatch(line)
            THEN SniffResult(h, FALSE, <<>>)
            ELSE PqrSniffLoop(Tail(headers), h)

PqrSniffPrefix(content) ==
    PqrSniffLoop(GetHeaders(content, NONE, 3000, PQR_COMMENT), FALSE)

\* FilePrefix.contents_header
ContentsHeader(content) == content

\* CML.sniff_prefix
CmlSniffPrefix(content) ==
    LET h == ContentsHeader(content) IN
        SniffResult(/\ Contains(h, XML_DECL)
                    /\ Contains(h, CML_OPEN) \/ Contains(h, CML_SCHEMA),
                    FALSE, <<>>)

\* int(str) does not raise ValueError
IsInt(text) == Strip(text) = <<GRO_COUNT>>

\* GRO.sniff_prefix
GroSniffPrefix(content) ==
    LET headers == GetHeaders(content, NL, 300, <<>>) IN
        IF Len(headers) < 2 THEN SniffResult(FALSE, FALSE, IndexError)
        ELSE IF ~IsInt(headers[2][1]) THEN SniffResult(FALSE, FALSE, <<>>)
        ELSE SniffResult(\A i \in 3..(Len(headers) - 1) :
                            StartsWith(headers[i][1], GRO_ATOM),
                         FALSE, <<>>)

\* CIF.sniff: the loop over the lines of the prefix cif
RECURSIVE CifScan(_, _)
CifScan(ls, cif) ==
    IF ls = <<>> THEN "rest"
    ELSE LET line == Head(ls) IN
        IF line = <<>> THEN CifScan(Tail(ls), cif)
        ELSE IF line[1] = HASH THEN CifScan(Tail(ls), cif)
        ELSE IF StartsWith(line, DATA_)
        THEN IF Contains(cif, ATOM_SITE) THEN "true" ELSE "rest"
        ELSE "false"

CifSniff(content) ==
    LET cif == Take(content, PrefixSize)
        r == CifScan(SplitAt(cif, NL), cif)
    IN  IF r = "true" THEN SniffResult(TRUE, FALSE, <<>>)
        ELSE IF r = "false" THEN SniffResult(FALSE, FALSE, <<>>)
        ELSE SniffResult(Contains(content, ATOM_SITE), TRUE, <<>>)

\* a line feed followed by tok, in text
AtLineStart(text, tok) ==
    \E i \in 1..(Len(text) - 1) : text[i] = NL /\ text[i + 1] = tok

\* a sniffer that looks at the prefix only
CellSniffPrefixOnly(content) ==
    LET cell == Take(content, PrefixSize) IN
        SniffResult(AtLineStart(cell, BLOCK) /\ AtLineStart(cell, ENDBLOCK), FALSE, <<>>)

\* Cell.sniff
CellSniff(content) ==
    LET cell == Take(content, PrefixSize) IN
        IF AtLineStart(cell, BLOCK)
        THEN IF AtLineStart(cell, ENDBLOCK) THEN SniffResult(TRUE, FALSE, <<>>)
             ELSE SniffResult(AtLineStart(content, ENDBLOCK), TRUE, <<>>)
        ELSE SniffResult(FALSE, FALSE, <<>>)

\* sniff of each class
Sniff(f, content) ==
    CASE f = "SDF" -> SdfSniffPrefix(content)
      [] f = "MOL2" -> Mol2SniffPrefix(content)
      [] f = "FPS" -> FpsSniffPrefix(content)
      [] f = "PDB" -> PdbSniffPrefix(content)
      [] f = "PDBQT" -> PdbqtSniffPrefix(content)
      [] f = "PQR" -> PqrSniffPrefix(content)
      [] f = "CML" -> CmlSniffPrefix(content)
      [] f = "GRO" -> GroSniffPrefix(content)
      [] f = "CIF" -> CifSniff(content)
      [] f = "Cell" -> CellSniff(content)

\* the files handed to the sniffers
LinesFiles(alphabet, n) ==
    {Content(ls, nl) : ls \in SeqsUpTo(alphabet, n), nl \in BOOLEAN}

\* SDF: three lines, a counts line, then the lines of a record and more,
\* cut at any line; one line longer than the limit of the sniffer at most
SdfCountsLines ==
    {<<COUNTS, V2000>>, <<COUNTS, V3000>>, <<COUNTS, " V2001">>,
     <<"a", V2000>>, <<COUNTS, "a">>}

SdfSniffFiles ==
    {Content(Take(<<<<"a">>, <<"a">>, l3, l4>> \o b, n), nl) :
        l3 \in {<<"a">>, <<M_END>>}, l4 \in SdfCountsLines,
        b \in [1..(SdfSniffLimit - 3) -> {<<M_END>>, <<SDF_END>>, <<"a">>}],
        n \in 0..(SdfSniffLimit + 1), nl \in BOOLEAN}

\* PDB, PDBQT: a line for each keyword of some set of keywords, in some
\* rotation of their usual order, after a line of something else or not
Rotated(order, r) ==
    [i \in 1..Len(order) |-> order[((i + r - 1) % Len(order)) + 1]]

\* pad lines of something else, the lines of the keywords of K in the
\* rotation r of their order, and these lines once more when dup
SectionFile(order, K, r, pad, dup) ==
    LET sel == SelectSeq(Rotated(order, r), LAMBDA k : k \in K)
        ls == [i \in 1..Len(sel) |-> <<sel[i], SP, "a">>]
    IN Content([i \in 1..pad |-> <<"a">>] \o ls \o (IF dup THEN ls ELSE <<>>), TRUE)

\* short files of any set of keywords, and files of every keyword whose
\* last keyword line is the last line that counts or the line after it
SectionFiles(order) ==
    {SectionFile(order, K, r, pad, dup) :
        K \in SUBSET {order[i] : i \in 1..Len(order)},
        r \in 0..(Len(order) - 1), pad \in 0..1, dup \in BOOLEAN}
    \cup
    {SectionFile(order, {order[i] : i \in 1..Len(order)}, r, pad, FALSE) :
        r \in 0..(Len(order) - 1),
        pad \in {SectionCount - Len(order), SectionCount - Len(order) + 1}}

SniffFiles(f) ==
    CASE f = "SDF" -> SdfSniffFiles
      [] f = "MOL2" ->
            LinesFiles({<<TRIPOS>>, <<SP, TRIPOS>>, <<TRIPOS, SP>>, <<"a">>}, 2)
      [] f = "FPS" ->
            LinesFiles({<<FPS1>>, <<FPS1, SP, "a">>, <<FPS1, TAB, "a">>,
                        <<SP, FPS1>>, <<"a">>, <<>>}, 2)
      [] f = "PDB" ->
            SectionFiles(<<"HEADER", "TITLE", "COMPND", "SOURCE", "KEYWDS", "EXPDTA">>)
      [] f = "PDBQT" ->
            SectionFiles(<<"REMARK", "ROOT", "ENDROOT", "BRANCH", "TORSDOF">>)
      [] f = "PQR" ->
            LinesFiles({<<REMARK, SP, "a">>, PQR_COMMENT \o <<SP, "a">>,
                        <<ATOM, SP, PQR_FIELDS>>, <<HETATM, SP, SP, PQR_FIELDS>>,
                        <<ATOM, SP, "a">>, <<>>}, 3)
      [] f = "CML" -> SeqsUpTo({XML_DECL, CML_OPEN, CML_SCHEMA, NL, "a"}, 3)
      [] f = "GRO" ->
            LinesFiles({<<"a">>, <<GRO_COUNT>>, <<SP, GRO_COUNT>>, <<GRO_ATOM>>, <<>>}, 4)
      [] f = "CIF" -> SeqsUpTo({DATA_, ATOM_SITE, HASH, NL, "a"}, PrefixSize + 2)
      [] f = "Cell" -> SeqsUpTo({NL, BLOCK, ENDBLOCK, "a"}, PrefixSize + 2)

\* sniff called on a file: it returns a value or raises
SniffCall ==
    /\ pc = "idle"
    /\ \E content \in SniffFiles(fmt) :
        LET r == Sniff(fmt, content) IN
            /\ input_file' = content
            /\ pc' = IF r.error = <<>> THEN "sniffed" ELSE "sniff_raised"
            /\ error' = r.error
            /\ sniffed' = r.value
            /\ reread' = r.reread
    /\ UNCHANGED <<fmt, num_inputs, split_params, chunk_size, pos, lines, start,
                   header_lines, accumulated, counter, parts, alloc>>
    /\ UNCHANGED <<mergeVars, metaVars>>

InitSniff == InitWith(SniffFormats, <<>>)

SpecSniff == InitSniff /\ [][SniffCall]_vars

\* ---------------------------------------------------------------- set_meta
\* the pattern each class's set_meta hands to count_special_lines, as a test
\* of one line (grep sees the line without its terminator):
\*   SDF   ^\$\$\$\$$            MOL2  @<TRIPOS>MOLECULE
\*   FPS   ^#  (invert=True)     CML   ^\s*<molecule
RECURSIVE DropBlanks(_)
DropBlanks(line) ==
    IF line # <<>> /\ Head(line) = SP THEN DropBlanks(Tail(line)) ELSE line

MetaPattern(f, line) ==
    CASE f = "SDF" -> Chomp(line) = <<SDF_END>>
      [] f = "MOL2" -> Contains(line, TRIPOS)
      [] f = "FPS" -> ~StartsWith(line, HASH)
      [] f = "CML" -> StartsWith(DropBlanks(Chomp(line)), MOL_OPEN)

\* count_special_lines: the number of lines of the file the pattern selects
RECURSIVE CountLines(_, _)
CountLines(f, ls) ==
    IF ls = <<>> THEN 0
    ELSE (IF MetaPattern(f, Head(ls)) THEN 1 ELSE 0) + CountLines(f, Tail(ls))

CountSpecialLines(f, content) == CountLines(f, ReadLines(content))

\* number_of_molecules as set_meta sets it
SetMeta(f, content) == CountSpecialLines(f, content)

\* ------------------------------------------------------------ PDB.set_meta
\* the index of the chain identifier in a line
ChainColumn == 21

\* the record names set_meta looks for, six characters each
ATOM_RECORD == <<ATOM, SP, SP>>
HETATM_RECORD == <<HETATM>>

\* what line[i] raises when the line has no index i
StringIndexError == <<"IndexError", "string index out of range">>

\* line[i]: the character at index i (from 0) of a line, NONE when the line
\* has no such index; from the record name on a line is written one character
\* to a token here, so that the character is the token at that place
RECURSIVE CharAt(_, _)
CharAt(line, i) ==
    IF line = <<>> THEN NONE
    ELSE IF i < Len(Head(line)) THEN Head(line)
    ELSE CharAt(Tail(line), i - Len(Head(line)))

\* the loop of set_meta over the lines left, ids the set built so far
RECURSIVE PdbChainIds(_, _)
PdbChainIds(ls, ids) ==
    IF ls = <<>> THEN [chain_ids |-> ids, error |-> <<>>]
    ELSE LET line == Head(ls) IN
        IF StartsWithText(line, ATOM_RECORD) \/ StartsWithText(line, HETATM_RECORD)
        THEN IF CharAt(line, ChainColumn) = NONE
             THEN [chain_ids |-> ids, error |-> StringIndexError]
             ELSE IF CharAt(line, ChainColumn) # SP
             THEN PdbChainIds(Tail(ls), ids \cup {CharAt(line, ChainColumn)})
             ELSE PdbChainIds(Tail(ls), ids)
        ELSE PdbChainIds(Tail(ls), ids)

PdbSetMeta(content) == PdbChainIds(ReadLines(content), {})

\* PDB files: lines of a record name followed by a body that stops one
\* character before the chain column, at it, or goes past it with a chain
\* identifier or a blank in the column; every line ended, or the last one not
MaxMetaLines == 2

Filler(n) == [i \in 1..n |-> "a"]

PdbLineSet ==
    { rec \o body : rec \in {ATOM_RECORD, HETATM_RECORD, <<REMARK>>, <<ATOM, SP, "a">>},
                    body \in {Filler(ChainColumn - 7), Filler(ChainColumn - 6)}
                         \cup {Filler(ChainColumn - 6) \o <<c, "a">> : c \in {"A", "B", SP}} }

PdbFiles ==
    UNION {{Content(ls, nl) : nl \in BOOLEAN} : ls \in SeqsUpTo(PdbLineSet, MaxMetaLines)}

\* set_meta called on a dataset: chain_ids is assigned, or the error of the
\* loop is logged and raised again
PdbSetMetaCall ==
    /\ pc = "idle"
    /\ \E content \in PdbFiles :
        LET r == PdbSetMeta(content) IN
            /\ input_file' = content
            /\ IF r.error = <<>>
               THEN /\ metadata' = <<r.chain_ids>>
                    /\ pc' = "done"
                    /\ error' = <<>>
               ELSE /\ metadata' = metadata
                    /\ pc' = "raised"
                    /\ error' = r.error
    /\ UNCHANGED <<fmt, num_inputs, split_params, chunk_size, pos, lines, start,
                   header_lines, accumulated, counter, parts, alloc>>
    /\ UNCHANGED <<mergeVars, sniffVars>>

InitPdbMeta == InitWith({"PDB"}, <<>>)

SpecPdbMeta == InitPdbMeta /\ [][PdbSetMetaCall]_vars

\* ================================================================== claims
\* helpers of the claims' statements
Ceil(n, k) == (n + k - 1) \div k

PartTexts == [i \in 1..Len(parts) |-> parts[i].data]

RECURSIVE ConcatAll(_)
ConcatAll(texts) ==
    IF texts = <<>> THEN <<>> ELSE Head(texts) \o ConcatAll(Tail(texts))

RECURSIVE SumMeta(_, _)
SumMeta(f, texts) ==
    IF texts = <<>> THEN 0 ELSE SetMeta(f, Head(texts)) + SumMeta(f, Tail(texts))

SplitDone == pc = "done" /\ chunk_size >= 1

\* C1: for SDF, MOL2, CML and FPS, every input and every k >= 1, the record
\* counts set_meta computes for the chunks of split add up to the record count
\* set_meta computes for the input.
C1_RecordCountPreserved ==
    SplitDone => SumMeta(fmt, PartTexts) = SetMeta(fmt, input_file)

\* the same for SDF alone, where the code agrees
C1_SdfRecordCountPreserved ==
    (SplitDone /\ fmt = "SDF") => SumMeta(fmt, PartTexts) = SetMeta(fmt, input_file)

\* MOL2: a line that starts a record
ClaimMol2Start(line) == Len(line) >= 1 /\ line[1] = TRIPOS

Mol2RecordsIn(content) == Len(SelectSeq(ReadLines(content), ClaimMol2Start))

RECURSIVE SumMol2Records(_)
SumMol2Records(texts) ==
    IF texts = <<>> THEN 0
    ELSE Mol2RecordsIn(Head(texts)) + SumMol2Records(Tail(texts))

\* C2: MOL2.split emits every record: for an input with N >= 1 lines starting
\* with @<TRIPOS>MOLECULE and every k >= 1 the chunks hold N records in total,
\* the last record (ended by end-of-file) included.
C2_Mol2EveryRecordEmitted ==
    (SplitDone /\ fmt = "MOL2" /\ Mol2RecordsIn(input_file) >= 1)
        => SumMol2Records(PartTexts) = Mol2RecordsIn(input_file)

\* a line that ends a record of a trailing-sentinel format
ClaimSdfEnd(line) == Len(line) >= 1 /\ line[1] = SDF_END
ClaimCmlEnd(line) == LET l == LStrip(line) IN Len(l) >= 1 /\ l[1] = MOL_CLOSE

TerminatedRecords(f, content) ==
    IF f = "SDF" THEN Len(SelectSeq(ReadLines(content), ClaimSdfEnd))
    ELSE Len(SelectSeq(ReadLines(content), ClaimCmlEnd))

\* C3: SDF.split and CML.split, N terminated records, k >= 1: exactly
\* ceil(N/k) chunks; every chunk but the last holds k records; the last holds
\* N mod k records when k does not divide N and k records otherwise.
C3_ChunkCountAndSizes ==
    (SplitDone /\ fmt \in {"SDF", "CML"}) =>
        LET N == TerminatedRecords(fmt, input_file)
            k == chunk_size
        IN /\ Len(parts) = Ceil(N, k)
           /\ \A i \in 1..Len(parts) :
                TerminatedRecords(fmt, parts[i].data) =
                    IF i < Len(parts) \/ N % k = 0 THEN k ELSE N % k

C3_Witness ==
    /\ SplitDone /\ fmt = "CML" /\ chunk_size = 2
    /\ TerminatedRecords(fmt, input_file) = 3
    /\ Len(parts) = 2
    /\ TerminatedRecords(fmt, parts[2].data) = 1

\* the records of a file, as the claims name them: for SDF and CML a record is
\* a run of lines up to and including a terminator line (lines after the last
\* terminator are no record; the document lines of CML belong to no record);
\* for MOL2 a record runs from a sentinel line to the line before the next
\* sentinel or the end of the file, and the lines before the first sentinel go
\* with the first record.
ClaimCmlDocLine(line) ==
    LET l == LStrip(line) IN
        Len(l) >= 1 /\ l[1] \in {XML_DECL, CML_OPEN, CML_CLOSE}

RECURSIVE ClaimRecords(_, _, _, _)
ClaimRecords(f, ls, cur, started) ==
    IF ls = <<>>
    THEN (IF f = "MOL2" /\ started THEN <<cur>> ELSE <<>>)
    ELSE LET l == Head(ls) IN
        CASE f = "SDF" ->
                IF ClaimSdfEnd(l)
                THEN <<Append(cur, l)>> \o ClaimRecords(f, Tail(ls), <<>>, TRUE)
                ELSE ClaimRecords(f, Tail(ls), Append(cur, l), TRUE)
          [] f = "CML" ->
                IF ClaimCmlDocLine(l) THEN ClaimRecords(f, Tail(ls), cur, TRUE)
                ELSE IF ClaimCmlEnd(l)
                THEN <<Append(cur, l)>> \o ClaimRecords(f, Tail(ls), <<>>, TRUE)
                ELSE ClaimRecords(f, Tail(ls), Append(cur, l), TRUE)
          [] OTHER ->
                IF ClaimMol2Start(l) /\ started
                THEN <<cur>> \o ClaimRecords(f, Tail(ls), <<l>>, TRUE)
                ELSE ClaimRecords(f, Tail(ls), Append(cur, l),
                                  started \/ ClaimMol2Start(l))

InputRecords == ClaimRecords(fmt, InLines, <<>>, FALSE)

\* the text of records a..b of R, in order
RECURSIVE RunText(_, _, _)
RunText(R, a, b) ==
    IF a > b THEN <<>> ELSE WriteLines(R[a]) \o RunText(R, a + 1, b)

\* what a chunk holding the record text t looks like
ChunkOf(f, t) ==
    IF f = "CML" THEN WriteLines(CmlHeaderLines) \o t \o WriteLines(CmlFooterLine)
    ELSE t

\* every chunk is the text of a run of whole records, and the runs follow one
\* another in the order of the input
RECURSIVE WholeRecordsInOrder(_, _, _, _)
WholeRecordsInOrder(f, texts, R, from) ==
    IF texts = <<>> THEN TRUE
    ELSE \E a \in from..Len(R) : \E b \in a..Len(R) :
            /\ Head(texts) = ChunkOf(f, RunText(R, a, b))
            /\ WholeRecordsInOrder(f, Tail(texts), R, b + 1)

\* C4: SDF.split, MOL2.split and CML.split: every record that is written has
\* all its lines, contiguous and in input order, inside one chunk, and every
\* record of chunk i precedes in the input every record of chunk i+1.
C4_RecordsWholeAndOrdered ==
    (SplitDone /\ fmt \in {"SDF", "MOL2", "CML"})
        => WholeRecordsInOrder(fmt, PartTexts, InputRecords, 1)

C4_Witness ==
    /\ SplitDone /\ fmt = "MOL2" /\ chunk_size = 2
    /\ Len(InputRecords) = 4
    /\ Len(parts) = 2
    /\ Len(ReadLines(parts[1].data)) = 4

\* FPS: header lines and data lines, as the claims name them
ClaimFpsHeader(line) == Len(line) >= 1 /\ line[1] = HASH
ClaimFpsData(line) ==
    /\ ~ClaimFpsHeader(line)
    /\ \E i \in 1..Len(line) : line[i] \notin {SP, NL}

FpsHeaders(content) == SelectSeq(ReadLines(content), ClaimFpsHeader)
FpsData(content) == SelectSeq(ReadLines(content), ClaimFpsData)

RECURSIVE FpsDataOfAll(_)
FpsDataOfAll(texts) ==
    IF texts = <<>> THEN <<>> ELSE FpsData(Head(texts)) \o FpsDataOfAll(Tail(texts))

\* C5: FPS.split, N non-blank data lines, k >= 1: exactly ceil(N/k) chunks,
\* each carrying every # line of the input followed by 1..k data lines; the
\* chunks' data lines, in chunk order, are the input's data lines in order,
\* wherever the # lines occur in the input.
C5_FpsChunks ==
    (SplitDone /\ fmt = "FPS") =>
        LET N == Len(FpsData(input_file))
            H == FpsHeaders(input_file)
        IN /\ Len(parts) = Ceil(N, chunk_size)
           /\ \A i \in 1..Len(parts) :
                LET pl == ReadLines(parts[i].data) IN
                    /\ Len(pl) > Len(H)
                    /\ Len(pl) <= Len(H) + chunk_size
                    /\ SubSeq(pl, 1, Len(H)) = H
                    /\ \A j \in (Len(H) + 1)..Len(pl) : ClaimFpsData(pl[j])
           /\ FpsDataOfAll(PartTexts) = FpsData(input_file)

\* the same for the inputs whose # lines all precede the data lines
FpsHeadersFirst(content) ==
    LET ls == ReadLines(content) IN
        \A i, j \in 1..Len(ls) :
            (ClaimFpsHeader(ls[j]) /\ ~ClaimFpsHeader(ls[i])) => j < i

C5_FpsChunksHeadersFirst ==
    (FpsHeadersFirst(input_file)) => C5_FpsChunks

\* SDF: every line of the input belongs to a terminated record
SdfAllTerminated(content) ==
    LET ls == ReadLines(content) IN ls = <<>> \/ ClaimSdfEnd(ls[Len(ls)])

\* C6: split then merge round-trips SDF: for an input whose every line belongs
\* to a $$$$-terminated record and every k >= 1, the chunks of SDF.split
\* concatenated in creation order are exactly the input.
C6_SdfSplitConcat ==
    (SplitDone /\ fmt = "SDF" /\ SdfAllTerminated(input_file))
        => ConcatAll(PartTexts) = input_file

C6_Witness ==
    /\ SplitDone /\ fmt = "SDF" /\ chunk_size = 2
    /\ input_file = Content(DocRecords("SDF", 3), TRUE)
    /\ Len(parts) = 2
    /\ parts[2].data = Content(DocRecord("SDF", 3), TRUE)

\* FPS: no line of the input is blank
FpsNoBlank(content) ==
    \A i \in 1..Len(ReadLines(content)) :
        \E j \in 1..Len(ReadLines(content)[i]) :
            ReadLines(content)[i][j] \notin {SP, NL}

\* C7: split then merge round-trips FPS: for an input with N >= 1 data lines,
\* its # lines all before its data lines, no blank line, and every k >= 1,
\* FPS.merge of the chunks of FPS.split writes the header lines once, then the
\* N data lines in order: the original file.
C7_FpsRoundTrip ==
    (/\ pc = "merged" /\ fmt = "FPS" /\ chunk_size >= 1
     /\ Len(FpsData(input_file)) >= 1
     /\ FpsHeadersFirst(input_file)
     /\ FpsNoBlank(input_file))
        => out = input_file

C7_Witness ==
    /\ pc = "merged" /\ fmt = "FPS" /\ chunk_size = 2
    /\ Len(FpsHeaders(input_file)) = 2
    /\ Len(FpsData(input_file)) = 5
    /\ Len(parts) = 3
    /\ Len(ReadLines(parts[3].data)) = 3
    /\ out = input_file

\* C8: split then merge reassembles a CML document (declaration line, cml
\* opening line, N molecule records, closing line): when the split gives at
\* least two chunks, CML.merge of them writes the header once, every record in
\* order and the closing line once, that is, the document.
C8_CmlRoundTrip ==
    (/\ pc = "merged" /\ fmt = "CML" /\ chunk_size >= 1
     /\ input_file \in Docs("CML")
     /\ Len(parts) >= 2)
        => out = input_file

\* what the code does there: the records and the closing line, no header
C8_CmlRoundTripNoHeader ==
    (/\ pc = "merged" /\ fmt = "CML" /\ chunk_size >= 1
     /\ input_file \in Docs("CML")
     /\ Len(parts) >= 2)
        => WriteLines(CmlHeaderLines) \o out = input_file

ClaimNotFpsHeader(line) == ~ClaimFpsHeader(line)

RECURSIVE FpsOtherOfAll(_)
FpsOtherOfAll(texts) ==
    IF texts = <<>> THEN <<>>
    ELSE SelectSeq(ReadLines(Head(texts)), ClaimNotFpsHeader) \o FpsOtherOfAll(Tail(texts))

\* C9: FPS.merge of two or more chunks: the # lines of the output are exactly
\* the # lines of the first chunk, its other lines are the non-# lines of every
\* chunk in chunk order, whatever the chunks hold.
C9_FpsMergeHeaders ==
    (pc = "merged" /\ fmt = "FPS" /\ Len(split_files) >= 2) =>
        /\ FpsHeaders(out) = FpsHeaders(split_files[1])
        /\ SelectSeq(ReadLines(out), ClaimNotFpsHeader) = FpsOtherOfAll(split_files)

\* the same for chunks that each hold their # lines first and a data line
FpsChunkRegular(content) ==
    FpsHeadersFirst(content) /\ SelectSeq(ReadLines(content), ClaimNotFpsHeader) # <<>>

C9_FpsMergeHeadersRegular ==
    (\A i \in 1..Len(split_files) : FpsChunkRegular(split_files[i]))
        => C9_FpsMergeHeaders

\* CML lines, as the claims name them; "starting with" is taken of the line
\* without its leading white space, CML files being indented
ClaimCmlMolecule(line) == LET l == LStrip(line) IN Len(l) >= 1 /\ l[1] = MOL_OPEN
ClaimCmlClose(line) == LET l == LStrip(line) IN Len(l) >= 1 /\ l[1] = CML_CLOSE
ClaimNotCmlClose(line) == ~ClaimCmlClose(line)
ClaimCmlHeaderOk(content) ==
    LET ls == ReadLines(content) IN
        /\ Len(ls) >= 2
        /\ LET a == LStrip(ls[1]) IN Len(a) >= 1 /\ a[1] = XML_DECL
        /\ LET b == LStrip(ls[2]) IN Len(b) >= 1 /\ b[1] = CML_OPEN

\* index of the first <molecule line of ls, Len(ls) + 1 when there is none
FirstMolecule(ls) ==
    IF \E i \in 1..Len(ls) : ClaimCmlMolecule(ls[i])
    THEN CHOOSE i \in 1..Len(ls) :
            ClaimCmlMolecule(ls[i]) /\ \A j \in 1..(i - 1) : ~ClaimCmlMolecule(ls[j])
    ELSE Len(ls) + 1

\* a chunk's lines from its first <molecule line on, without the </cml> lines
CmlContentOf(content) ==
    LET ls == ReadLines(content) IN
        WriteLines(SelectSeq(SubSeq(ls, FirstMolecule(ls), Len(ls)), ClaimNotCmlClose))

RECURSIVE CmlContentOfAll(_)
CmlContentOfAll(texts) ==
    IF texts = <<>> THEN <<>>
    ELSE CmlContentOf(Head(texts)) \o CmlContentOfAll(Tail(texts))

\* C10: CML.merge of two or more chunks that each begin with the declaration
\* line and a cml opening line writes, in chunk order, each chunk's lines from
\* its first <molecule line on without its </cml> lines, then one </cml> line,
\* and nothing else.
C10_CmlMergeContent ==
    (/\ fmt = "CML" /\ pc \in {"merged", "merge_raised"}
     /\ Len(split_files) >= 2
     /\ \A i \in 1..Len(split_files) : ClaimCmlHeaderOk(split_files[i]))
        => /\ pc = "merged"
           /\ out = CmlContentOfAll(split_files) \o <<CML_CLOSE, NL>>

C10_Witness ==
    /\ fmt = "CML" /\ pc = "merged" /\ Len(split_files) = 2
    /\ \A i \in 1..2 : ClaimCmlHeaderOk(split_files[i])
    /\ LET ls == ReadLines(split_files[1]) IN
        /\ FirstMolecule(ls) = 4
        /\ Len(ls) = 4
    /\ \E j \in 1..Len(ReadLines(split_files[2])) :
            ClaimCmlClose(ReadLines(split_files[2])[j])
    /\ Len(ReadLines(out)) = 2

\* the first chunk whose header is malformed
FirstBadHeader(files) ==
    CHOOSE j \in 1..Len(files) :
        /\ ~ClaimCmlHeaderOk(files[j])
        /\ \A i \in 1..(j - 1) : ClaimCmlHeaderOk(files[i])

\* the offending header line(s) of a chunk: its first line when that does not
\* start with the declaration, its first two lines otherwise
OffendingHeader(content) ==
    LET ls == ReadLines(content)
        l1 == IF Len(ls) >= 1 THEN ls[1] ELSE <<>>
        l2 == IF Len(ls) >= 2 THEN ls[2] ELSE <<>>
        a == LStrip(l1)
    IN  IF Len(a) >= 1 /\ a[1] = XML_DECL THEN l1 \o l2 ELSE l1

\* C11: CML.merge of two or more chunks of which chunk j is the first with a
\* malformed header raises; the destination then holds the merged content of
\* the chunks 1..j-1 followed by the offending header line(s) of chunk j and
\* nothing more (no closing </cml> is appended), and chunk j is the last
\* chunk that was opened.
C11_CmlMergeAbort ==
    (/\ fmt = "CML" /\ pc \in {"merged", "merge_raised"}
     /\ Len(split_files) >= 2
     /\ \E i \in 1..Len(split_files) : ~ClaimCmlHeaderOk(split_files[i]))
        => LET j == FirstBadHeader(split_files) IN
            /\ pc = "merge_raised"
            /\ error # <<>>
            /\ out_opened
            /\ out = CmlContentOfAll(SubSeq(split_files, 1, j - 1))
                        \o OffendingHeader(split_files[j])
            /\ midx = j

\* the second of two chunks has a declaration line and no cml line after it;
\* the first chunk has a <molecule line
C11_Witness ==
    /\ fmt = "CML" /\ pc = "merge_raised" /\ Len(split_files) = 2
    /\ ClaimCmlHeaderOk(split_files[1])
    /\ CmlContentOf(split_files[1]) # <<>>
    /\ ~ClaimCmlHeaderOk(split_files[2])
    /\ Len(ReadLines(split_files[2])) >= 2
    /\ OffendingHeader(split_files[2]) = split_files[2]
    /\ out = CmlContentOf(split_files[1]) \o split_files[2]

\* C12: FPS.merge and CML.merge of an empty chunk list raise, and raise before
\* the destination is opened: a destination that exists keeps its content.
C12_EmptyListRaises ==
    (pc \in {"merged", "merge_raised"} /\ split_files = <<>>)
        => /\ pc = "merge_raised"
           /\ error # <<>>
           /\ ~out_opened
           /\ out = ExistingOutput
           /\ midx = 0

C12_Witness ==
    /\ fmt = "CML" /\ pc = "merge_raised" /\ split_files = <<>>
    /\ out = ExistingOutput /\ out # <<>>

\* C13: FPS.merge and CML.merge of exactly one chunk never raise and leave a
\* destination identical to the chunk, whatever the chunk holds (a CML chunk
\* with a malformed header, an FPS chunk with # lines after data lines).
C13_OneChunkCopied ==
    (pc \in {"merged", "merge_raised"} /\ Len(split_files) = 1)
        => /\ pc = "merged"
           /\ error = <<>>
           /\ out = split_files[1]

\* one CML chunk that does not begin with the two header lines
C13_Witness ==
    /\ fmt = "CML" /\ pc = "merged" /\ Len(split_files) = 1
    /\ ~ClaimCmlHeaderOk(split_files[1])
    /\ split_files[1] # <<>>
    /\ out = split_files[1]

\* a split call with one input and a plan whose mode is not to_size has ended
OtherModeCall ==
    /\ pc # "idle" /\ num_inputs = 1 /\ split_params.given
    /\ split_params.split_mode # "to_size"

\* the name of its format each splitter is to give, as the claim lists them
ClaimSplitterName(f) ==
    CASE f = "SDF" -> "SD"
      [] f = "MOL2" -> "MOL2"
      [] f = "FPS" -> "FPS"
      [] f = "CML" -> "CML"

\* C14: a split with one input and a mode other than to_size raises, calls
\* the allocator never and writes no chunk; for number_of_parts the message
\* names the format of the splitter called.
C14_OtherModeRejected ==
    OtherModeCall =>
        /\ pc = "raised"
        /\ alloc = 0 /\ parts = <<>>
        /\ split_params.split_mode = "number_of_parts" =>
                Len(error) = 3 /\ error[2] = ClaimSplitterName(fmt)

\* the same without the name in the message
C14_OtherModeRaises ==
    OtherModeCall => pc = "raised" /\ error # <<>> /\ alloc = 0 /\ parts = <<>>

\* the cardinality error of each splitter
CardinalityError(f) ==
    <<ClaimSplitterName(f), "-file splitting does not support multiple files">>

\* C15: a split with more than one input dataset and a plan, whatever its
\* mode and size, raises the cardinality error (also when the mode is not
\* supported), calls the allocator never and writes no chunk.
C15_SeveralInputsRejected ==
    (pc # "idle" /\ num_inputs > 1 /\ split_params.given)
        => /\ pc = "raised"
           /\ error = CardinalityError(fmt)
           /\ alloc = 0 /\ parts = <<>>

\* several inputs together with a mode that is not supported
C15_Witness ==
    /\ pc = "raised" /\ num_inputs = 2 /\ split_params.given
    /\ split_params.split_mode = "other"
    /\ error = CardinalityError(fmt)

\* nothing was written: no part, no call of the allocator, the destination
\* neither opened nor changed
NothingWritten ==
    /\ parts = <<>> /\ alloc = 0
    /\ ~out_opened /\ out = ExistingOutput

\* C16: OBFS.split raises an unsupported-operation error for every input and
\* every value of the split parameters, no split parameters included, and
\* OBFS.merge raises one for every chunk list; neither writes anything.
C16_ObfsAlwaysRaises ==
    (fmt = "OBFS" /\ pc # "idle")
        => /\ pc \in {"raised", "merge_raised"}
           /\ Len(error) >= 1 /\ error[1] = "NotImplementedError"
           /\ NothingWritten

\* C16, amended: OBFS.split raises an unsupported-operation error for every
\* input and every plan that is supplied, and returns None without an error
\* when no plan is supplied; OBFS.merge raises an unsupported-operation error
\* for every chunk list; neither writes anything.
C16_ObfsRaisesOnPlan ==
    (fmt = "OBFS" /\ pc # "idle")
        => /\ pc \in {"returned", "raised", "merge_raised"}
           /\ IF pc = "returned"
              THEN ~split_params.given /\ error = <<>>
              ELSE Len(error) >= 1 /\ error[1] = "NotImplementedError"
           /\ NothingWritten

\* split was called with several inputs and a plan of the supported mode
C16_Witness ==
    /\ fmt = "OBFS" /\ pc = "raised"
    /\ split_params.given /\ split_params.split_mode = "to_size"
    /\ num_inputs = 2
    /\ error[1] = "NotImplementedError"

\* a sniff call has ended
SniffDone == pc \in {"sniffed", "sniff_raised"}

\* C17: every sniffer returns false or true on every readable content (an
\* empty file, a file of one line, a file cut at any line) and never raises.
C17_SniffNeverRaises ==
    SniffDone => pc = "sniffed" /\ error = <<>> /\ sniffed \in BOOLEAN

\* the sniffers that raise are those of FPS, GRO and PQR
C17_OthersNeverRaise ==
    pc = "sniff_raised" => fmt \in {"FPS", "GRO", "PQR"}

\* the lines of a content, without their terminators
ClaimLines(content) ==
    LET ls == ReadLines(content) IN [i \in 1..Len(ls) |-> Chomp(ls[i])]

\* the SDF sniff of the claim
ClaimSdfSniff(content) ==
    LET ls == ClaimLines(content) IN
        /\ Len(ls) >= 4
        /\ StrLen(ls[4]) = 39
        /\ ls[4][Len(ls[4])] \in {" V2000", " V3000"}
        /\ \E i, j \in 5..Len(ls) :
                /\ i < j /\ j <= SdfSniffLimit
                /\ ls[i] = <<"M  END">>
                /\ ls[j] = <<"$$$$">>

\* C18: SDF sniff returns true if and only if line 4 without its terminator
\* is 39 characters long and ends with " V2000" or " V3000", some line i > 4
\* is "M  END" and some line j > i, j not beyond the limit, is "$$$$".
C18_SdfSniff ==
    (fmt = "SDF" /\ SniffDone)
        => pc = "sniffed" /\ sniffed = ClaimSdfSniff(input_file)

\* true with a $$$$ line before the M  END line and the confirming $$$$ line
\* the last line within the limit
C18_Witness ==
    /\ fmt = "SDF" /\ pc = "sniffed" /\ sniffed
    /\ LET ls == ClaimLines(input_file) IN
        /\ Len(ls) > SdfSniffLimit
        /\ ls[5] = <<SDF_END>>
        /\ ls[SdfSniffLimit] = <<SDF_END>>
        /\ \A j \in 6..(SdfSniffLimit - 1) : ls[j] # <<SDF_END>>

\* the header lines of a PQR file: its lines that do not start with the
\* comment marker "REMARK   5"
ClaimNotPqrComment(line) == ~StartsWithText(line, <<"REMARK", " ", " ", " ", "5">>)

ClaimPqrHeaders(content) == SelectSeq(ClaimLines(content), ClaimNotPqrComment)

\* the leading token of a line, "" for a line of white space
ClaimLeading(line) ==
    LET l == SplitWhite(line) IN IF l = <<>> THEN "" ELSE l[1][1]

\* an ATOM or HETATM line with the fields of the pattern
ClaimPqrAtom(line) ==
    /\ ClaimLeading(line) \in {"ATOM", "HETATM"}
    /\ Len(SplitWhite(line)) >= 2
    /\ SplitWhite(line)[2] = <<PQR_FIELDS>>

\* C19: PQR sniff returns true if and only if there is a header line whose
\* leading token is REMARK and there is an ATOM or HETATM line that matches
\* the pattern, whatever the order of the two lines.
C19_PqrSniffAnyOrder ==
    (fmt = "PQR" /\ pc = "sniffed") =>
        LET ls == ClaimPqrHeaders(input_file) IN
            sniffed = (/\ \E i \in 1..Len(ls) : ClaimLeading(ls[i]) = "REMARK"
                       /\ \E j \in 1..Len(ls) : ClaimPqrAtom(ls[j]))

\* what holds: the REMARK line has to come before the first matching line
C19_PqrSniffRemarkFirst ==
    (fmt = "PQR" /\ pc = "sniffed") =>
        LET ls == ClaimPqrHeaders(input_file) IN
            sniffed = (\E j \in 1..Len(ls) :
                        /\ ClaimPqrAtom(ls[j])
                        /\ \A k \in 1..(j - 1) : ~ClaimPqrAtom(ls[k])
                        /\ \E i \in 1..(j - 1) : ClaimLeading(ls[i]) = "REMARK")

\* the substantive lines of the prefix of a CIF file: neither empty nor
\* starting with #
ClaimSubstantive(line) == line # <<>> /\ line[1] # "#"

ClaimCifPrefix(content) == SubSeq(content, 1, IF Len(content) < PrefixSize
                                                THEN Len(content) ELSE PrefixSize)

ClaimCifLines(content) ==
    SelectSeq(SplitAt(ClaimCifPrefix(content), "\n"), ClaimSubstantive)

ClaimCifData(content) ==
    /\ ClaimCifLines(content) # <<>>
    /\ ClaimCifLines(content)[1][1] = "data_"

ClaimCifToken(text) == \E i \in 1..Len(text) : text[i] = "_atom_site_fract_"

\* C20: CIF sniff returns true only if the first substantive line of the
\* prefix starts with data_ and the file contains _atom_site_fract_; a prefix
\* without a substantive line yields false; the whole file is read again only
\* when the substantive line starts with data_ and the prefix lacks the token.
C20_CifSniff ==
    (fmt = "CIF" /\ SniffDone) =>
        /\ pc = "sniffed"
        /\ sniffed => ClaimCifData(input_file) /\ ClaimCifToken(input_file)
        /\ ClaimCifLines(input_file) = <<>> => ~sniffed
        /\ reread => /\ ClaimCifData(input_file)
                     /\ ~ClaimCifToken(ClaimCifPrefix(input_file))

\* what holds: a prefix without a substantive line is treated as one whose
\* substantive line starts with data_
C20_CifSniffFallsThrough ==
    (fmt = "CIF" /\ SniffDone) =>
        LET ok == ClaimCifLines(input_file) = <<>> \/ ClaimCifData(input_file) IN
            /\ pc = "sniffed"
            /\ sniffed = (ok /\ ClaimCifToken(input_file))
            /\ reread = (ok /\ ~(/\ ClaimCifData(input_file)
                                  /\ ClaimCifToken(ClaimCifPrefix(input_file))))

\* C21: FPS sniff returns true if and only if the first token of the first
\* line, the tokens being delimited by white space, is "#FPS1"; so it does for
\* a first line "#FPS1", a space and further text.
C21_FpsSniffFirstToken ==
    (fmt = "FPS" /\ pc = "sniffed") =>
        sniffed = (ClaimLeading(ClaimLines(input_file)[1]) = "#FPS1")

\* the first line up to its first tab, without the white space at its ends
ClaimFirstTabField(content) == Strip(SplitAt(ClaimLines(content)[1], "\t")[1])

\* C21, amended: on a file that has a first line FPS sniff returns true if
\* and only if the first line up to its first tab, without the white space at
\* its two ends, is "#FPS1"; a first line "#FPS1", a space and further text
\* yields false.
C21_FpsSniffFirstTabField ==
    (fmt = "FPS" /\ SniffDone /\ ClaimLines(input_file) # <<>>) =>
        /\ pc = "sniffed"
        /\ sniffed = (ClaimFirstTabField(input_file) = <<"#FPS1">>)

\* the first line is "#FPS1", a space and further text
C21_Witness ==
    /\ fmt = "FPS" /\ pc = "sniffed" /\ ~sniffed
    /\ ClaimLines(input_file) # <<>>
    /\ ClaimLines(input_file)[1] = <<"#FPS1", " ", "a">>

\* a line feed followed by the marker, in a text
ClaimMarker(text, marker) ==
    \E i \in 1..(Len(text) - 1) : text[i] = "\n" /\ text[i + 1] = marker

ClaimSection(line) == Strip(SplitAt(line, " ")[1])

\* every keyword leads one of the first lines, SectionCount of them
ClaimSections(content, keywords) ==
    LET ls == ClaimLines(content) IN
        \A k \in keywords :
            \E i \in 1..Len(ls) : i <= SectionCount /\ ClaimSection(ls[i]) = <<k>>

\* C23: PDB sniff returns true if and only if each of HEADER, TITLE, COMPND,
\* SOURCE, KEYWDS, EXPDTA leads one of the first lines (300 of them, scaled
\* to SectionCount), PDBQT sniff if
\* and only if each of REMARK, ROOT, ENDROOT, BRANCH, TORSDOF does: the
\* result depends on the set of the tokens that lead these lines only, not on
\* their order or number, and a keyword beyond these lines does not count.
C23_SectionSniff ==
    /\ (fmt = "PDB" /\ SniffDone) =>
            /\ pc = "sniffed"
            /\ sniffed = ClaimSections(input_file,
                    {"HEADER", "TITLE", "COMPND", "SOURCE", "KEYWDS", "EXPDTA"})
    /\ (fmt = "PDBQT" /\ SniffDone) =>
            /\ pc = "sniffed"
            /\ sniffed = ClaimSections(input_file,
                    {"REMARK", "ROOT", "ENDROOT", "BRANCH", "TORSDOF"})

\* a PDB file that has every keyword, one of them beyond the lines that count
C23_Witness ==
    /\ fmt = "PDB" /\ pc = "sniffed" /\ ~sniffed
    /\ LET ls == ClaimLines(input_file) IN
        /\ Len(ls) = SectionCount + 1
        /\ \A k \in {"HEADER", "TITLE", "COMPND", "SOURCE", "KEYWDS", "EXPDTA"} :
                \E i \in 1..Len(ls) : ClaimSection(ls[i]) = <<k>>

\* one step of a split, as far as the allocator and the parts go: the
\* allocator is called when a part is written and then only, and once; the
\* part is written whole, after the parts written before, which stay as they
\* are, to the file named as the input in the directory just allocated
AllocStep ==
    IF alloc' # alloc \/ parts' # parts
    THEN /\ alloc' = alloc + 1
         /\ Len(parts') = Len(parts) + 1
         /\ SubSeq(parts', 1, Len(parts)) = parts
         /\ parts'[Len(parts')].dir = alloc'
    ELSE TRUE

\* the i-th part is in the i-th directory allocated, named as the input file
PartsInPlace ==
    /\ alloc = Len(parts)
    /\ \A i \in 1..Len(parts) :
        /\ parts[i].dir = i
        /\ parts[i].name = InputPath(fmt)[Len(InputPath(fmt))]

\* C24: in every split the allocator is called once per chunk and only when
\* a chunk is flushed; the chunk goes to <allocated directory>/<base name of
\* the input file>; a chunk is written whole and closed before the allocator
\* is called again, so the allocator calls follow the order of the chunks.
C24_AllocatorPerChunk == [](PartsInPlace) /\ [][AllocStep]_vars

C24_Witness ==
    /\ pc = "done" /\ fmt = "SDF" /\ Len(parts) = 2 /\ alloc = 2
    /\ parts[2].dir = 2 /\ parts[2].name = "mols.sdf"

\* a self-contained CML file: the declaration line, the opening line, lines
\* that are none of the three document lines, and </cml> as the last line
ClaimCmlChunk(content) ==
    LET ls == ReadLines(content) IN
        /\ Len(ls) >= 3
        /\ ls[1] = <<XML_DECL, NL>>
        /\ ls[2] = <<CML_OPEN, CML_OPEN_END, NL>>
        /\ ls[Len(ls)] = <<CML_CLOSE, NL>>
        /\ \A i \in 3..(Len(ls) - 1) : ~ClaimCmlDocLine(ls[i])

\* C25: every chunk written by CML.split is a self-contained CML file (the
\* two header lines first, </cml> as its last line, none of the three
\* elsewhere), and so passes the header validation of CML.merge.
C25_CmlChunkSelfContained ==
    fmt = "CML" =>
        \A i \in 1..Len(parts) :
            ClaimCmlChunk(parts[i].data) /\ ClaimCmlHeaderOk(parts[i].data)

\* what holds of every chunk: the two header lines come first, no other line
\* starts with a document line's text, the chunk ends with </cml> and a line
\* end, and the header validation of CML.merge passes; </cml> is a line of its
\* own when the input ends with a line end
C25_CmlChunkHeaderFirst ==
    fmt = "CML" =>
        \A i \in 1..Len(parts) :
            LET ls == ReadLines(parts[i].data) IN
                /\ ClaimCmlHeaderOk(parts[i].data)
                /\ ls[1] = <<XML_DECL, NL>>
                /\ ls[2] = <<CML_OPEN, CML_OPEN_END, NL>>
                /\ \A j \in 3..Len(ls) :
                    ClaimCmlDocLine(ls[j]) => j = Len(ls) /\ ls[j] = <<CML_CLOSE, NL>>
                /\ SubSeq(parts[i].data, Len(parts[i].data) - 1, Len(parts[i].data))
                        = <<CML_CLOSE, NL>>
                /\ (EndsWith(input_file, NL) => ClaimCmlChunk(parts[i].data))

\* the lines of a PDB file that carry a chain identifier, as the claim names
\* them, each without its line end
ClaimAtomLine(line) ==
    \/ (Len(line) >= 3 /\ line[1] = ATOM /\ line[2] = SP /\ line[3] = SP)
    \/ (Len(line) >= 1 /\ line[1] = HETATM)
ClaimAtomLines(content) ==
    LET ls == SelectSeq(ReadLines(content), ClaimAtomLine) IN
        [i \in 1..Len(ls) |-> Chomp(ls[i])]

\* column 22 of such a line is its token 19 after "ATOM", blank, blank and
\* its token 17 after "HETATM"
ClaimChainToken(line) == IF line[1] = ATOM THEN 19 ELSE 17
ClaimHasColumn(line) == Len(line) >= ClaimChainToken(line)
ClaimChainIds(ls) ==
    {ls[i][ClaimChainToken(ls[i])] : i \in {j \in 1..Len(ls) : ClaimHasColumn(ls[j])}}
        \ {SP}

\* C26: PDB.set_meta sets chain_ids to the set of the non-space characters at
\* column 22 (index 21) of the ATOM and HETATM lines; when one of these lines
\* is too short to have the column the error is raised again and chain_ids
\* stays unassigned.
C26_PdbChainIds ==
    (fmt = "PDB" /\ pc \in {"done", "raised"}) =>
        LET ls == ClaimAtomLines(input_file) IN
            IF \A i \in 1..Len(ls) : ClaimHasColumn(ls[i])
            THEN pc = "done" /\ metadata = <<ClaimChainIds(ls)>>
            ELSE pc = "raised" /\ error # <<>> /\ metadata = <<>>

\* what holds: the character taken is the one at index 21 of the line as it
\* was read, its line end included, and whatever is there and is not a blank
\* becomes a chain identifier
ClaimRawAtomLines(content) == SelectSeq(ReadLines(content), ClaimAtomLine)
C26_PdbChainIdsOfRawLines ==
    (fmt = "PDB" /\ pc \in {"done", "raised"}) =>
        LET ls == ClaimRawAtomLines(input_file) IN
            IF \A i \in 1..Len(ls) : ClaimHasColumn(ls[i])
            THEN pc = "done" /\ metadata = <<ClaimChainIds(ls)>>
            ELSE pc = "raised" /\ error = StringIndexError /\ metadata = <<>>

\* the number of records the accumulator holds: a record of SDF and of CML
\* has one terminator line, a record of MOL2 one sentinel line, a record of
\* FPS is one data line
ClaimAccRecords ==
    CASE fmt = "SDF" -> Len(SelectSeq(accumulated, ClaimSdfEnd))
      [] fmt = "MOL2" -> Len(SelectSeq(accumulated, ClaimMol2Start))
      [] fmt = "CML" -> Len(SelectSeq(accumulated, ClaimCmlEnd))
      [] fmt = "FPS" -> Len(accumulated)

\* in the loop of a split of size k >= 1: at most k records accumulated, and
\* floor(c / k) chunks written after c records
ClaimLoopCounts ==
    (fmt \in Formats /\ pc = "reading" /\ chunk_size >= 1) =>
        /\ ClaimAccRecords <= chunk_size
        /\ Len(parts) = counter \div chunk_size

\* a step of the loop that writes a chunk leaves the accumulator empty
ClaimFlushEmpties ==
    (fmt \in Formats /\ pc' = "reading" /\ parts' # parts) => accumulated' = <<>>

\* C27: at every step of the loop of a streaming split of size k >= 1 (SDF,
\* MOL2, CML, FPS) the accumulator holds at most k completed records, it is
\* empty right after each flush, and the number of chunks written so far is
\* floor(c / k), c the number of records completed so far.
C27_StreamingCounts == [](ClaimLoopCounts) /\ [][ClaimFlushEmpties]_vars

\* what holds: the same, for an FPS file only when its # lines all come
\* before its data lines
C27_StreamingCountsHeadersFirst ==
    /\ []((fmt = "FPS" => FpsHeadersFirst(input_file)) => ClaimLoopCounts)
    /\ [][ClaimFlushEmpties]_vars

\* the index of the last record terminator among the lines ls, 0 when there
\* is none
ClaimIsEnd(f, line) == IF f = "SDF" THEN ClaimSdfEnd(line) ELSE ClaimCmlEnd(line)
ClaimLastEnd(f, ls) ==
    IF \E i \in 1..Len(ls) : ClaimIsEnd(f, ls[i])
    THEN CHOOSE i \in 1..Len(ls) :
            ClaimIsEnd(f, ls[i]) /\ \A j \in (i + 1)..Len(ls) : ~ClaimIsEnd(f, ls[j])
    ELSE 0

\* the record lines of the input up to its last terminator (for CML the
\* document lines are no record lines)
ClaimNotCmlDocLine(line) == ~ClaimCmlDocLine(line)
ClaimTerminated(f, content) ==
    LET ls == ReadLines(content)
        upto == SubSeq(ls, 1, ClaimLastEnd(f, ls))
    IN ConcatAll(IF f = "CML" THEN SelectSeq(upto, ClaimNotCmlDocLine) ELSE upto)

\* what a chunk holds of the input: all of an SDF chunk, a CML chunk without
\* the two header lines (five tokens) and the closing line (two tokens)
ClaimChunkBody(f, text) ==
    IF f = "CML" THEN SubSeq(text, 6, Len(text) - 2) ELSE text
ClaimChunkBodies(f) == ConcatAll([i \in 1..Len(parts) |-> ClaimChunkBody(f, parts[i].data)])

\* C28: SDF.split and CML.split write the lines that follow the last record
\* terminator to no chunk, and an input with no terminator line gives no
\* chunk and no allocator call, for every size k >= 1.
C28_TrailingLinesDropped ==
    (fmt \in {"SDF", "CML"} /\ pc = "done" /\ chunk_size >= 1) =>
        /\ ClaimChunkBodies(fmt) = ClaimTerminated(fmt, input_file)
        /\ (ClaimLastEnd(fmt, InLines) = 0 => parts = <<>> /\ alloc = 0)

C28_Witness ==
    /\ fmt = "CML" /\ pc = "done" /\ chunk_size >= 1
    /\ Len(parts) >= 1
    /\ ClaimLastEnd("CML", InLines) < Len(InLines)
    /\ ~ClaimCmlDocLine(InLines[Len(InLines)])

\* the lines that complete a record: a terminator line of SDF and of CML, a
\* sentinel line of MOL2 after the first one (it closes the record before
\* it), a data line of FPS
ClaimCompletes(f, ls, i) ==
    CASE f = "SDF" -> ClaimSdfEnd(ls[i])
      [] f = "CML" -> ClaimCmlEnd(ls[i])
      [] f = "MOL2" -> ClaimMol2Start(ls[i]) /\ \E j \in 1..(i - 1) : ClaimMol2Start(ls[j])
      [] f = "FPS" -> ClaimFpsData(ls[i])

\* the line at which the first record of the input is completed, 0 when no
\* record is
ClaimFirstCompleted(f, ls) ==
    IF \E i \in 1..Len(ls) : ClaimCompletes(f, ls, i)
    THEN CHOOSE i \in 1..Len(ls) :
            ClaimCompletes(f, ls, i) /\ \A j \in 1..(i - 1) : ~ClaimCompletes(f, ls, j)
    ELSE 0

\* split called on one input with the plan (to_size, 0)
ClaimSizeZeroCall ==
    /\ fmt \in Formats /\ pc \in {"reading", "raised", "done"}
    /\ split_params.given /\ num_inputs = 1
    /\ split_params.split_mode = "to_size" /\ split_params.split_size = 0

\* C29: the size is not validated: with the plan (to_size, 0) each of the
\* four splits fails at the first completed record of the input, before the
\* allocator is called and before a chunk is written, and the error
\* (a division by zero) is raised again to the caller.
C29_SizeZeroFails ==
    ClaimSizeZeroCall =>
        LET n == ClaimFirstCompleted(fmt, InLines) IN
            /\ parts = <<>> /\ alloc = 0
            /\ (n > 0 => /\ pc \in {"reading", "raised"}
                          /\ (pc = "reading" => pos < n /\ error = <<>>)
                          /\ (pc = "raised" => pos = n /\ error = <<"ZeroDivisionError">>))
            /\ (n = 0 => pc \in {"reading", "done"} /\ error = <<>>)

C29_Witness ==
    /\ ClaimSizeZeroCall /\ fmt = "MOL2" /\ pc = "raised"
    /\ error = <<"ZeroDivisionError">>
    /\ pos = ClaimFirstCompleted("MOL2", InLines) /\ pos >= 2
    /\ parts = <<>> /\ alloc = 0

====
